---- MODULE Spec2Model ----
(***************************************************************************)
(* A model of the NTDS.dit extractor of dissect.target                      *)
(*   plugins/os/windows/ntds/ntds.py    (class NTDS)                        *)
(*   plugins/os/windows/ntds/crypto.py  (ENC_SECRET, PEK_LIST, helpers)     *)
(*                                                                         *)
(* Python values are modelled as follows.                                   *)
(*   str    a sequence of one-character strings                             *)
(*   bytes  a sequence of integers 0..255                                   *)
(*   int    an integer                                                      *)
(*   an optional value (x or None): <<>> for None, <<x>> for x              *)
(*   dict   a function; its keys are the function's DOMAIN                  *)
(* The ciphers and the hash of the Cryptodome / hashlib libraries are not   *)
(* part of the repository.  A call to one of them is recorded with its      *)
(* arguments, and its output is any byte string of the length the cipher    *)
(* produces, drawn from LibOutputs.                                         *)
(***************************************************************************)
EXTENDS Integers, Sequences, FiniteSets, TLC

\* ------------------------------------------------------------------------
\* Bounds of the model
\* ------------------------------------------------------------------------

\* the largest number of 8-byte blocks of ciphertext in a secret
MaxCipherBlocks == 2

\* the largest number of keys in a PEK list
MaxPek == 2

\* ------------------------------------------------------------------------
\* State
\* ------------------------------------------------------------------------

VARIABLES
    plainPekList,   \* PEK_LIST.plainPekList: the decrypted keys
    call,           \* the arguments of the decryptSecret call being made, if any
    outcome,        \* what that call left behind (see Returned)
    pekInput,       \* the arguments PEK_LIST was constructed with, if it was
    pekRaised,      \* the exception that left PEK_LIST.__init__, if any
    decryptedPek,   \* PEK_LIST.__decryptedPekList["DecryptedPek"], if set
    db,             \* the database NTDS is opened on: column names, tables, boot key
    ntds,           \* the fields of the NTDS object
    pc,             \* where NTDS.__init__ is: "sdtable", "linktable", "datatable",
                    \* "dns", "pek"; "ready" once it returned, "raised" if it raised
    cursor,         \* the position (from 1) of the datatable loop of __build_schemas
    log,            \* the log.debug messages of the datatable loop, in order
    raised,         \* the exception that left NTDS.__init__, "" if none
    dumped,         \* the last dump_ntds_dit call and what it did, if any
    called          \* the last other method call on the object and its result, if any

secretVars == <<call, outcome>>

pekVars == <<pekInput, pekRaised, decryptedPek>>

ntdsVars == <<db, ntds, pc, cursor, log, raised, dumped, called>>

vars ==
    <<plainPekList, call, outcome, pekInput, pekRaised, decryptedPek, db, ntds, pc, cursor, log, raised, dumped, called>>

\* ------------------------------------------------------------------------
\* Python helpers: optional values, dicts, strings, bytes
\* ------------------------------------------------------------------------

None == <<>>

Some(x) == <<x>>

EmptyDict == [k \in {} |-> None]

\* no database has been opened: there is no NTDS object
NtdsNotOpened ==
    /\ db = None
    /\ ntds = None
    /\ pc = "idle"
    /\ cursor = 0
    /\ log = <<>>
    /\ raised = ""
    /\ dumped = None
    /\ called = None

\* d[k] = v
DictSet(d, k, v) == [x \in (DOMAIN d) \cup {k} |-> IF x = k THEN v ELSE d[x]]

\* d.get(k, default)
DictGet(d, k, default) == IF k \in DOMAIN d THEN d[k] ELSE default

DecDigits == <<"0", "1", "2", "3", "4", "5", "6", "7", "8", "9">>

HexDigits == <<"0", "1", "2", "3", "4", "5", "6", "7", "8", "9", "a", "b", "c", "d", "e", "f">>

DigitValue(c) == CHOOSE d \in 0..9 : DecDigits[d + 1] = c

IsDigit(c) == \E d \in 0..9 : DecDigits[d + 1] = c

\* s[n:]
Drop(s, n) == IF n >= Len(s) THEN <<>> ELSE SubSeq(s, n + 1, Len(s))

\* s[:n]
Take(s, n) == IF n >= Len(s) THEN s ELSE SubSeq(s, 1, n)

\* s[a:b]
Slice(s, a, b) == Take(Drop(s, a), IF b > a THEN b - a ELSE 0)

\* s.startswith(p)
StartsWith(s, p) == Len(s) >= Len(p) /\ SubSeq(s, 1, Len(p)) = p

\* int(s) succeeds: a non-empty run of decimal digits
IsDecimal(s) == Len(s) > 0 /\ \A i \in 1..Len(s) : IsDigit(s[i])

RECURSIVE ParseInt(_)
\* int(s) for a decimal s
ParseInt(s) ==
    IF Len(s) = 0 THEN 0
    ELSE 10 * ParseInt(SubSeq(s, 1, Len(s) - 1)) + DigitValue(s[Len(s)])

RECURSIVE IntToStr(_)
\* str(n) for n >= 0
IntToStr(n) ==
    IF n < 10 THEN <<DecDigits[n + 1]>>
    ELSE IntToStr(n \div 10) \o <<DecDigits[(n % 10) + 1]>>

\* hexlify(b).decode()
Hexlify(b) ==
    [i \in 1..(2 * Len(b)) |->
        IF i % 2 = 1 THEN HexDigits[(b[(i + 1) \div 2] \div 16) + 1]
        ELSE HexDigits[(b[i \div 2] % 16) + 1]]

\* pack("<L", n)
PackU32(n) == <<n % 256, (n \div 256) % 256, (n \div 65536) % 256, (n \div 16777216) % 256>>

\* pack("<H", n)
PackU16(n) == <<n % 256, (n \div 256) % 256>>

\* unpack("<H", b)[0]
UnpackU16(b) == b[1] + 256 * b[2]

\* unpack("<L", b)[0]; the values of the model are below 2^31
UnpackU32(b) == b[1] + 256 * b[2] + 65536 * b[3] + 16777216 * b[4]

\* unpack("<i", b)[0]: two's complement
UnpackI32(b) ==
    b[1] + 256 * b[2] + 65536 * b[3] + 16777216 * (IF b[4] >= 128 THEN b[4] - 256 ELSE b[4])

\* n bytes of value v
Fill(n, v) == [i \in 1..n |-> v]

\* the i-th key of a PEK list (i from 0), 16 bytes
PekKey(i) == Fill(16, 16 * (i + 1))

\* A cipher of the library returns as many bytes as it is given.  Which bytes
\* is not modelled: an output is its first byte followed by one repeated byte.
LibPatterns == {<<0, 0>>, <<2, 0>>, <<255, 255>>}

LibOutput(p, n) == [i \in 1..n |-> IF i = 1 THEN p[1] ELSE p[2]]

\* A recorded call of a library cipher.  md5of: the md5.update() arguments whose
\* digest is the key (empty when the key is given directly as key).
LibCall(fn, md5of, key, iv, data, out) ==
    [fn |-> fn, md5of |-> md5of, key |-> key, iv |-> iv, data |-> data, out |-> out]

\* ------------------------------------------------------------------------
\* crypto.py: ENC_SECRET
\* ------------------------------------------------------------------------

DB_RC4 == 16

DB_RC4_SALT == 17

REP_RC4_SALT == 18

DB_AES == 19

\* ENC_SECRET_WIN2K(data): an 24-byte header, the rest is EncryptedData
ENC_SECRET_WIN2K(data) ==
    IF Len(data) < 24 THEN [raised |-> <<"EOFError">>, struct |-> <<>>]
    ELSE [raised |-> <<>>,
          struct |-> [AlgorithmID |-> UnpackU16(SubSeq(data, 1, 2)),
                      Flags |-> UnpackU16(SubSeq(data, 3, 4)),
                      PekID |-> UnpackU32(SubSeq(data, 5, 8)),
                      Salt |-> SubSeq(data, 9, 24),
                      EncryptedData |-> Drop(data, 24)]]

\* ENC_SECRET_WIN16(data): the header also holds a 32-bit SecretLength
ENC_SECRET_WIN16(data) ==
    IF Len(data) < 28 THEN [raised |-> <<"EOFError">>, struct |-> <<>>]
    ELSE [raised |-> <<>>,
          struct |-> [AlgorithmID |-> UnpackU16(SubSeq(data, 1, 2)),
                      Flags |-> UnpackU16(SubSeq(data, 3, 4)),
                      PekID |-> UnpackU32(SubSeq(data, 5, 8)),
                      Salt |-> SubSeq(data, 9, 24),
                      SecretLength |-> UnpackU32(SubSeq(data, 25, 28)),
                      EncryptedData |-> Drop(data, 28)]]

\* The attributes of a constructed ENC_SECRET
EncSecretObject(data, algo_id, is_aes, is_rc4, struct) ==
    [raw_data |-> data, algo_id |-> algo_id, is_aes |-> is_aes, is_rc4 |-> is_rc4,
     struct |-> struct, algo_type |-> algo_id]

\* (mutant) an unknown algorithm ID is taken for an RC4 secret
ENC_SECRET_unknown_rc4(data, algo_id) ==
    LET p == ENC_SECRET_WIN2K(data) IN
    IF p.raised # <<>> THEN [raised |-> p.raised, obj |-> <<>>]
    ELSE [raised |-> <<>>, obj |-> EncSecretObject(data, algo_id, FALSE, TRUE, p.struct)]

\* ENC_SECRET.__init__ with an algorithm ID that is none of the four: it raises
ENC_SECRET_unknown(data, algo_id) == [raised |-> <<"ValueError">>, obj |-> <<>>]

\* ENC_SECRET(data): raised is the exception that left the constructor, if any
ENC_SECRET_init(data) ==
    IF Len(data) < 2 THEN [raised |-> <<"struct.error">>, obj |-> <<>>]
    ELSE LET algo_id == UnpackU16(Take(data, 2)) IN
         IF algo_id = DB_AES THEN
             LET p == ENC_SECRET_WIN16(data) IN
             IF p.raised # <<>> THEN [raised |-> p.raised, obj |-> <<>>]
             ELSE [raised |-> <<>>, obj |-> EncSecretObject(data, algo_id, TRUE, FALSE, p.struct)]
         ELSE IF algo_id \in {DB_RC4, DB_RC4_SALT, REP_RC4_SALT} THEN
             LET p == ENC_SECRET_WIN2K(data) IN
             IF p.raised # <<>> THEN [raised |-> p.raised, obj |-> <<>>]
             ELSE [raised |-> <<>>, obj |-> EncSecretObject(data, algo_id, FALSE, TRUE, p.struct)]
         ELSE ENC_SECRET_unknown(data, algo_id)

\* hasattr(encSecret, name): an attribute of the object, or through __getattr__
\* a field of its struct
HasAttr(encSecret, name) == name \in DOMAIN encSecret \/ name \in DOMAIN encSecret.struct

\* ------------------------------------------------------------------------
\* crypto.py: transform_key, deriveKey, decryptAES
\* ------------------------------------------------------------------------

RECURSIVE PopCount(_)
PopCount(b) == IF b = 0 THEN 0 ELSE (b % 2) + PopCount(b \div 2)

Pow2(n) == CASE n = 0 -> 1 [] n = 1 -> 2 [] n = 2 -> 4 [] n = 3 -> 8 [] n = 4 -> 16
             [] n = 5 -> 32 [] n = 6 -> 64 [] n = 7 -> 128 [] n = 8 -> 256

\* x & 0xFE for 0 <= x
ClearLow(x) == (x % 256) - (x % 2)

\* transform_key(key7): the 56 bits spread over 8 bytes, odd parity
transform_key(key7) ==
    LET key8 == [i \in 1..8 |->
                    IF i = 1 THEN ClearLow(key7[1])
                    ELSE IF i = 8 THEN ClearLow(key7[7] * 2)
                    ELSE ClearLow(((key7[i - 1] * Pow2(9 - i)) % 256) + (key7[i] \div Pow2(i - 1)))]
    IN  [i \in 1..8 |-> IF PopCount(key8[i]) % 2 = 0 THEN key8[i] + 1 ELSE key8[i]]

\* deriveKey(baseKey)
deriveKey(baseKey) ==
    LET key == PackU32(baseKey) IN
    <<transform_key(<<key[1], key[2], key[3], key[4], key[1], key[2], key[3]>>),
      transform_key(<<key[4], key[1], key[2], key[3], key[4], key[1], key[2]>>)>>

\* unpad(data, 16) of Crypto.Util.Padding: <<>> when it raises ValueError,
\* else <<the unpadded data>>
Unpad(data) ==
    IF Len(data) = 0 \/ Len(data) % 16 # 0 THEN None
    ELSE LET n == data[Len(data)] IN
         IF n < 1 \/ n > 16 THEN None
         ELSE IF \E i \in (Len(data) - n + 1)..Len(data) : data[i] # n THEN None
         ELSE Some(Take(data, Len(data) - n))

\* the length of what decryptAES hands to the cipher: every block padded to 16
PaddedLen(n) == ((n + 15) \div 16) * 16

\* decryptAES(key, value, iv), raw being what the cipher returned for the blocks
decryptAES(key, value, iv, raw) ==
    LET plainText == raw IN
    IF Unpad(plainText) # None THEN Unpad(plainText)[1] ELSE plainText

\* ------------------------------------------------------------------------
\* crypto.py: PEK_LIST.removeRC4Layer, __removeDESLayer, decryptSecret
\* ------------------------------------------------------------------------

STR_DEC_ERROR_INIT == <<"D", "E", "C", "_", "E", "R", "R", "O", "R", "_", "I", "N", "I", "T">>

STR_DEC_ERROR_UNK == <<"D", "E", "C", "_", "E", "R", "R", "O", "R", "_", "U", "N", "K">>

STR_MISSING_RID == <<"M", "I", "S", "S", "I", "N", "G", "_", "R", "I", "D", "_">>

\* What a call leaves behind: the value returned (kind "str", "bytes" or "list")
\* or the exception that left it (kind "raise"), the calls made to the library
\* ciphers, and the indices plainPekList was subscripted with.
Returned(kind, val, calls, reads, plain) ==
    [ret |-> [kind |-> kind, val |-> val], libCalls |-> calls, pekReads |-> reads, tmpPlain |-> plain]

Raised(exc, calls, reads, plain) == Returned("raise", <<exc>>, calls, reads, plain)

NoOutcome == Returned("none", <<>>, <<>>, <<>>, None)

\* removeRC4Layer(encSecret): p chooses the output of the cipher
removeRC4Layer(pekList, encSecret, p) ==
    LET idx == encSecret.struct.PekID
        data == encSecret.struct.EncryptedData
    IN  IF idx >= Len(pekList) THEN [raised |-> <<"IndexError">>, plain |-> <<>>, calls |-> <<>>]
        ELSE LET out == LibOutput(p, Len(data)) IN
             [raised |-> <<>>, plain |-> out,
              calls |-> <<LibCall("ARC4", <<pekList[idx + 1], encSecret.struct.Salt>>, <<>>, <<>>, data, out)>>]

\* the AES branch of decryptSecret: decryptAES(plainPekList[PekID], EncryptedData, Salt)
removeAESLayer(pekList, encSecret, p) ==
    LET idx == encSecret.struct.PekID
        data == encSecret.struct.EncryptedData
    IN  IF idx >= Len(pekList) THEN [raised |-> <<"IndexError">>, plain |-> <<>>, calls |-> <<>>]
        ELSE LET out == LibOutput(p, PaddedLen(Len(data))) IN
             [raised |-> <<>>, plain |-> decryptAES(pekList[idx + 1], data, encSecret.struct.Salt, out),
              calls |-> <<LibCall("AES", <<>>, pekList[idx + 1], encSecret.struct.Salt, data, out)>>]

\* __removeDESLayer(cipher, rid): q chooses the output of the cipher.  int(rid)
\* raises ValueError for a rid that is no number; DES in ECB mode raises
\* ValueError for data that is no multiple of 8 bytes.  (The rids of the model
\* fit 32 bits, so pack("<L", ...) in deriveKey does not raise.)
removeDESLayer(cipher, rid, q) ==
    IF ~IsDecimal(rid) THEN [raised |-> <<"ValueError">>, plain |-> <<>>, calls |-> <<>>]
    ELSE LET keys == deriveKey(ParseInt(rid))
             c1 == Take(cipher, 8)
             c2 == Drop(cipher, 8)
             call1 == LibCall("DES", <<>>, keys[1], <<>>, c1, LibOutput(q, Len(c1)))
             call2 == LibCall("DES", <<>>, keys[2], <<>>, c2, LibOutput(q, Len(c2)))
         IN  IF Len(c1) % 8 # 0 THEN [raised |-> <<"ValueError">>, plain |-> <<>>, calls |-> <<>>]
             ELSE IF Len(c2) % 8 # 0 THEN [raised |-> <<"ValueError">>, plain |-> <<>>, calls |-> <<call1>>]
             ELSE [raised |-> <<>>, plain |-> call1.out \o call2.out, calls |-> <<call1, call2>>]

RECURSIVE Concat(_)
Concat(ss) == IF Len(ss) = 0 THEN <<>> ELSE Head(ss) \o Concat(Tail(ss))

\* the isADAM block of decryptSecret
AdamForm(tmpPlain, rid, isHistory, calls, reads) ==
    IF isHistory /\ rid # <<>> THEN
        IF Len(tmpPlain) < 4 THEN Raised("struct.error", calls, reads, Some(tmpPlain))
        ELSE LET count == UnpackI32(Take(tmpPlain, 4)) IN
             Returned("list",
                      [j \in 1..count |->
                          Hexlify(Slice(tmpPlain, 4 + 4 * j + (j - 1) * 16, 4 + 4 * j + j * 16))],
                      calls, reads, Some(tmpPlain))
    ELSE IF rid # <<>> THEN Returned("str", Hexlify(tmpPlain), calls, reads, Some(tmpPlain))
    ELSE Returned("str", STR_MISSING_RID \o Hexlify(tmpPlain), calls, reads, Some(tmpPlain))

\* the hasDES block of decryptSecret
DesForm(tmpPlain, rid, isHistory, calls, reads, q) ==
    IF isHistory /\ rid # <<>> THEN
        LET n == Len(tmpPlain) \div 16
            blk(j) == removeDESLayer(Slice(tmpPlain, (j - 1) * 16, j * 16), rid, q)
        IN  IF n > 0 /\ blk(1).raised # <<>> THEN
                Raised(blk(1).raised[1], calls \o blk(1).calls, reads, Some(tmpPlain))
            ELSE Returned("list", [j \in 1..n |-> Hexlify(blk(j).plain)],
                          calls \o Concat([j \in 1..n |-> blk(j).calls]), reads, Some(tmpPlain))
    ELSE IF rid # <<>> THEN
        LET d == removeDESLayer(tmpPlain, rid, q) IN
        IF d.raised # <<>> THEN Raised(d.raised[1], calls \o d.calls, reads, Some(tmpPlain))
        ELSE Returned("str", Hexlify(d.plain), calls \o d.calls, reads, Some(tmpPlain))
    ELSE Returned("str", STR_MISSING_RID \o Hexlify(tmpPlain), calls, reads, Some(tmpPlain))

\* (mutant) hasDES is looked at before isADAM
PostProcess_des_first(tmpPlain, rid, isHistory, hasDES, isADAM, calls, reads, q) ==
    IF hasDES THEN DesForm(tmpPlain, rid, isHistory, calls, reads, q)
    ELSE IF isADAM THEN AdamForm(tmpPlain, rid, isHistory, calls, reads)
    ELSE Returned("bytes", tmpPlain, calls, reads, Some(tmpPlain))

\* decryptSecret from "if isADAM:" to its end
PostProcess(tmpPlain, rid, isHistory, hasDES, isADAM, calls, reads, q) ==
    IF isADAM THEN AdamForm(tmpPlain, rid, isHistory, calls, reads)
    ELSE IF hasDES THEN DesForm(tmpPlain, rid, isHistory, calls, reads, q)
    ELSE Returned("bytes", tmpPlain, calls, reads, Some(tmpPlain))

\* decryptSecret(rawSecret, rid, isHistory, hasDES, isADAM) on a PEK_LIST whose
\* plainPekList is pekList; p and q choose the outputs of the ciphers
decryptSecret(pekList, rawSecret, rid, isHistory, hasDES, isADAM, p, q) ==
    LET enc == ENC_SECRET_init(rawSecret) IN
    IF enc.raised = <<"ValueError">> THEN Returned("str", STR_DEC_ERROR_INIT, <<>>, <<>>, None)
    ELSE IF enc.raised # <<>> THEN Returned("str", STR_DEC_ERROR_UNK, <<>>, <<>>, None)
    ELSE LET encSecret == enc.obj
             reads == <<encSecret.struct.PekID>>
             layer == IF HasAttr(encSecret, "is_rc4") THEN removeRC4Layer(pekList, encSecret, p)
                      ELSE IF HasAttr(encSecret, "is_aes") THEN removeAESLayer(pekList, encSecret, p)
                      ELSE [raised |-> <<"UnboundLocalError">>, plain |-> <<>>, calls |-> <<>>]
         IN  IF layer.raised # <<>> THEN
                 Raised(layer.raised[1], layer.calls,
                        IF layer.raised = <<"UnboundLocalError">> THEN <<>> ELSE reads, None)
             ELSE PostProcess(layer.plain, rid, isHistory, hasDES, isADAM, layer.calls, reads, q)

\* ------------------------------------------------------------------------
\* crypto.py: PEK_LIST.__init__
\* ------------------------------------------------------------------------

\* PEKLIST_ENC(rawEncPekList): Header[8], KeyMaterial[16], the rest EncryptedPek
PEKLIST_ENC(raw) ==
    IF Len(raw) < 24 THEN [raised |-> <<"EOFError">>, struct |-> <<>>]
    ELSE [raised |-> <<>>,
          struct |-> [Header |-> SubSeq(raw, 1, 8), KeyMaterial |-> SubSeq(raw, 9, 24),
                      EncryptedPek |-> Drop(raw, 24)]]

\* PEKLIST_PLAIN(data): Header[32], the rest DecryptedPek
PEKLIST_PLAIN(data) ==
    IF Len(data) < 32 THEN [raised |-> <<"EOFError">>, struct |-> <<>>]
    ELSE [raised |-> <<>>, struct |-> [Header |-> SubSeq(data, 1, 32), DecryptedPek |-> Drop(data, 32)]]

\* len(PEK_KEY()): Header[1], Padding[3], Key[16]
PEK_KEY_LEN == 20

\* PEK_KEY(block)["Key"]
PEK_KEY_Key(block) == SubSeq(block, 5, 20)

\* Scheme A: every full 20-byte block of DecryptedPek gives a key
SchemeA_keys(dp) ==
    [i \in 1..(Len(dp) \div PEK_KEY_LEN) |->
        PEK_KEY_Key(Slice(dp, (i - 1) * PEK_KEY_LEN, (i - 1) * PEK_KEY_LEN + PEK_KEY_LEN))]

\* (mutant) the index of an entry is never looked at
SchemeB_break_never(index, cur_index) == FALSE

\* "if index != cur_index: break"
SchemeB_break(index, cur_index) == index # cur_index

RECURSIVE SchemeB_loop(_, _, _)
\* the "while True" loop of Scheme B from (pos, cur_index): the keys appended
SchemeB_loop(dp, pos, cur_index) ==
    LET pek_entry == Slice(dp, pos, pos + 20) IN
    IF Len(pek_entry) < 20 THEN <<>>
    ELSE LET index == UnpackU32(SubSeq(pek_entry, 1, 4))
             pek == SubSeq(pek_entry, 5, 20)
         IN  IF SchemeB_break(index, cur_index) THEN <<>>
             ELSE <<pek>> \o SchemeB_loop(dp, pos + 20, cur_index + 1)

SchemeB_keys(dp) == SchemeB_loop(dp, 0, 0)

HEADER_A == <<2, 0, 0, 0>>

HEADER_B == <<3, 0, 0, 0>>

\* PEK_LIST(rawEncPekList, bootKey).  libOut is what the cipher returned: for
\* Scheme A, RC4 keyed by MD5(bootKey, then KeyMaterial 1000 times) over
\* EncryptedPek; for Scheme B, AES-CBC keyed by bootKey with KeyMaterial as IV
\* over the 16-byte blocks of EncryptedPek (before decryptAES unpads it).
PEK_LIST_init(rawEncPekList, bootKey, libOut) ==
    LET enc == PEKLIST_ENC(rawEncPekList) IN
    IF enc.raised # <<>> THEN [raised |-> enc.raised, decryptedPek |-> None, plainPekList |-> <<>>]
    ELSE IF Take(enc.struct.Header, 4) = HEADER_A THEN
        LET plain == PEKLIST_PLAIN(libOut) IN
        IF plain.raised # <<>> THEN [raised |-> plain.raised, decryptedPek |-> None, plainPekList |-> <<>>]
        ELSE [raised |-> <<>>, decryptedPek |-> Some(plain.struct.DecryptedPek),
              plainPekList |-> SchemeA_keys(plain.struct.DecryptedPek)]
    ELSE IF Take(enc.struct.Header, 4) = HEADER_B THEN
        LET plain == PEKLIST_PLAIN(decryptAES(bootKey, enc.struct.EncryptedPek, enc.struct.KeyMaterial, libOut)) IN
        IF plain.raised # <<>> THEN [raised |-> plain.raised, decryptedPek |-> None, plainPekList |-> <<>>]
        ELSE [raised |-> <<>>, decryptedPek |-> Some(plain.struct.DecryptedPek),
              plainPekList |-> SchemeB_keys(plain.struct.DecryptedPek)]
    ELSE [raised |-> <<>>, decryptedPek |-> None, plainPekList |-> <<>>]

\* ------------------------------------------------------------------------
\* Construction of a PEK_LIST from a blob
\* ------------------------------------------------------------------------

\* the index of the terminating entry observed in real databases: 0x08080808
SENTINEL_INDEX == 134744072

\* a plaintext entry of Scheme B: {u32 index_LE; u8 key[16]}
PackEntry(e) == PackU32(e.index) \o e.key

\* the entries a plaintext may hold at position pos (from 1): any index of the
\* range or the sentinel, with a key of its own or a key of 0x08 bytes
EntriesAt(pos) ==
    {[index |-> i, key |-> k] : i \in (0..MaxPek) \cup {SENTINEL_INDEX}, k \in {PekKey(pos - 1), Fill(16, 8)}}

RECURSIVE EntryListsOf(_)
\* the lists of n entries
EntryListsOf(n) ==
    IF n = 0 THEN {<<>>}
    ELSE {Append(es, e) : es \in EntryListsOf(n - 1), e \in EntriesAt(n)}

EntryLists == UNION {EntryListsOf(n) : n \in 0..(MaxPek + 1)}

\* the bytes that follow the entries up to the next multiple of 16: zeros, or
\* PKCS#7 padding
Tails(len) == LET t == (16 - (len % 16)) % 16 IN {Fill(t, 0), Fill(t, t)}

\* the plaintexts a blob may decrypt to: a 32-byte header, entries, a tail
PekPlaintexts ==
    UNION {{Fill(32, 0) \o Concat([i \in 1..Len(es) |-> PackEntry(es[i])]) \o tail :
               tail \in Tails(20 * Len(es))} : es \in EntryLists}

BootKey == Fill(16, 0)

\* the blob that decrypts to a plaintext: header, key material, ciphertext
PekBlob(header, plain) == header \o Fill(4, 0) \o Fill(16, 34) \o Fill(Len(plain), 85)

InitPek ==
    /\ plainPekList = <<>>
    /\ call = None
    /\ outcome = NoOutcome
    /\ pekInput = None
    /\ pekRaised = None
    /\ decryptedPek = None
    /\ NtdsNotOpened

\* the blobs tried with their plaintexts: every header with every plaintext, a
\* blob cut short of its key material, and a blob whose plaintext is cut short
\* of its header
PekInputs ==
    {[rawEncPekList |-> PekBlob(h, plain), bootKey |-> BootKey, libOut |-> plain] :
        h \in {HEADER_A, HEADER_B, <<1, 0, 0, 0>>}, plain \in PekPlaintexts}
    \cup {[rawEncPekList |-> Take(PekBlob(h, Fill(16, 0)), t), bootKey |-> BootKey, libOut |-> Fill(16, 0)] :
             h \in {HEADER_A, HEADER_B}, t \in {20, 40}}

\* PEK_LIST(rawEncPekList, bootKey)
ConstructPekList ==
    /\ pekInput = None
    /\ \E in \in PekInputs :
          LET r == PEK_LIST_init(in.rawEncPekList, in.bootKey, in.libOut) IN
          /\ pekInput' = Some(in)
          /\ pekRaised' = r.raised
          /\ decryptedPek' = r.decryptedPek
          /\ plainPekList' = r.plainPekList
    /\ UNCHANGED <<secretVars, ntdsVars>>

NextPek == ConstructPekList

SpecPek == InitPek /\ [][NextPek]_vars

\* ------------------------------------------------------------------------
\* Claims about PEK_LIST.__init__ (checked under SpecPek)
\* ------------------------------------------------------------------------

\* the index and the key of the i-th (from 0) 20-byte entry of a buffer
EntryIndex(buf, i) == UnpackU32(SubSeq(buf, 20 * i + 1, 20 * i + 4))

EntryKey(buf, i) == SubSeq(buf, 20 * i + 5, 20 * i + 20)

SchemeB_built ==
    /\ pekInput # None
    /\ pekRaised = None
    /\ Len(pekInput[1].rawEncPekList) >= 4
    /\ Take(pekInput[1].rawEncPekList, 4) = HEADER_B

\* C6: Scheme B.  When the plaintext the cipher returns holds, after its 32-byte
\* header, entries with the indices 0..N-1 and then an entry with the index
\* 0x08080808, plainPekList has exactly N keys and its i-th key is the key of
\* the entry with index i.  In general decoding stops at the first entry whose
\* index is not the next expected one, or when fewer than 20 bytes remain.
C6_SchemeB ==
    SchemeB_built =>
        LET raw == Drop(pekInput[1].libOut, 32)
            dp == decryptedPek[1]
            L == Len(plainPekList)
        IN  /\ \A N \in 0..(MaxPek + 1) :
                   ( /\ Len(raw) >= 20 * (N + 1)
                     /\ \A i \in 0..(N - 1) : EntryIndex(raw, i) = i
                     /\ EntryIndex(raw, N) = SENTINEL_INDEX )
                   => /\ L = N
                      /\ \A i \in 0..(N - 1) : plainPekList[i + 1] = EntryKey(raw, i)
            /\ 20 * L <= Len(dp)
            /\ \A i \in 0..(L - 1) : EntryIndex(dp, i) = i /\ plainPekList[i + 1] = EntryKey(dp, i)
            /\ Len(dp) < 20 * (L + 1) \/ EntryIndex(dp, L) # L

\* two entries and a sentinel, followed by PKCS#7 padding that decryptAES strips
C6_Witness ==
    /\ SchemeB_built
    /\ Len(plainPekList) = 2
    /\ Len(pekInput[1].libOut) >= 32 + 60
    /\ EntryIndex(Drop(pekInput[1].libOut, 32), 2) = SENTINEL_INDEX
    /\ Len(decryptedPek[1]) < Len(pekInput[1].libOut) - 32

\* ------------------------------------------------------------------------
\* ntds.py: values of the database, constants
\* ------------------------------------------------------------------------

\* A value read from a record is dynamically typed: None, an int, a str, bytes
\* or a list of ints.  t is its type, v its content.
PyNone == [t |-> "none", v |-> <<>>]

PyInt(n) == [t |-> "int", v |-> <<n>>]

PyStr(s) == [t |-> "str", v |-> s]

PyBytes(b) == [t |-> "bytes", v |-> b]

PyList(l) == [t |-> "list", v |-> l]

\* bool(x)
Truthy(x) ==
    CASE x.t = "none" -> FALSE
      [] x.t = "int" -> x.v[1] # 0
      [] OTHER -> x.v # <<>>

STR_None == <<"N", "o", "n", "e">>

\* str(x) of None or a non-negative int
Str(x) == IF x.t = "none" THEN STR_None ELSE IntToStr(x.v[1])

LowerCase == <<"a", "b", "c", "d", "e", "f", "g", "h", "i", "j", "k", "l", "m", "n", "o", "p", "q", "r", "s", "t", "u", "v", "w", "x", "y", "z">>

UpperCase == <<"A", "B", "C", "D", "E", "F", "G", "H", "I", "J", "K", "L", "M", "N", "O", "P", "Q", "R", "S", "T", "U", "V", "W", "X", "Y", "Z">>

\* s.upper()
Upper(s) ==
    [i \in 1..Len(s) |->
        IF \E j \in 1..26 : LowerCase[j] = s[i]
        THEN UpperCase[CHOOSE j \in 1..26 : LowerCase[j] = s[i]]
        ELSE s[i]]

\* unhexlify(s) of an s that hexlify produced
HexValue(c) == (CHOOSE d \in 1..16 : HexDigits[d] = c) - 1

Unhexlify(s) == [i \in 1..(Len(s) \div 2) |-> 16 * HexValue(s[2 * i - 1]) + HexValue(s[2 * i])]

\* NAME_TO_INTERNAL, the entries the code reads
NAME_TO_INTERNAL ==
    [rdn |-> <<"A", "T", "T", "m", "5", "8", "9", "8", "2", "5">>,
     pek_list |-> <<"A", "T", "T", "k", "5", "9", "0", "6", "8", "9">>,
     attribute_id |-> <<"A", "T", "T", "c", "1", "3", "1", "1", "0", "2">>,
     attribute_name_ldap |-> <<"A", "T", "T", "m", "1", "3", "1", "5", "3", "2">>,
     attribute_name_common_name |-> <<"A", "T", "T", "m", "3">>,
     ms_ds_int_id |-> <<"A", "T", "T", "j", "5", "9", "1", "5", "4", "0">>,
     governs_id |-> <<"A", "T", "T", "c", "1", "3", "1", "0", "9", "4">>,
     object_class |-> <<"A", "T", "T", "c", "0">>,
     link_id |-> <<"A", "T", "T", "j", "1", "3", "1", "1", "2", "2">>,
     is_deleted |-> <<"A", "T", "T", "i", "1", "3", "1", "1", "2", "0">>]

COL_DNT == <<"D", "N", "T", "_", "c", "o", "l">>

COL_PDNT == <<"P", "D", "N", "T", "_", "c", "o", "l">>

COL_RDNtyp == <<"R", "D", "N", "t", "y", "p", "_", "c", "o", "l">>

STR_ATT == <<"A", "T", "T">>

STR_ATTm == <<"A", "T", "T", "m">>

STR_Common_Name == <<"C", "o", "m", "m", "o", "n", "-", "N", "a", "m", "e">>

STR_cn == <<"c", "n">>

OCLID_CLASS_SCHEMA == 196621

OCLID_ATTRIBUTE_SCHEMA == 196622

OCLID_DOMAIN_DNS == 655427

OCLID_DMD == 196617

OCLID_TOP == 65536

OCLID_CONFIGURATION == 655372

OCLID_KDS_PROV_ROOT_KEY == 655638

\* record.get(name): the value of the column, None when the record has none
Get(record, name) == IF name \in DOMAIN record THEN record[name] ELSE PyNone

\* x in seq
InList(x, seq) == \E i \in 1..Len(seq) : seq[i] = x

\* ------------------------------------------------------------------------
\* ntds.py: NTDS.__init__, the fields of a new object
\* ------------------------------------------------------------------------

RECURSIVE ColumnsMapping(_)
\* {int(v[4:]): v for v in column_names if v.startswith("ATT")}: a later column
\* with the same number replaces an earlier one
ColumnsMapping(column_names) ==
    IF Len(column_names) = 0 THEN EmptyDict
    ELSE LET rest == ColumnsMapping(SubSeq(column_names, 1, Len(column_names) - 1))
             v == column_names[Len(column_names)]
         IN  IF StartsWith(v, STR_ATT) THEN DictSet(rest, PyInt(ParseInt(Drop(v, 4))), v) ELSE rest

\* the object at line 164, before __build_schemas
NewNTDS(column_names, boot_key) ==
    [boot_key |-> boot_key,
     datatable_columns_mapping |-> ColumnsMapping(column_names),
     object_class_schema |-> [ldap |-> EmptyDict, common_name |-> EmptyDict, resolve |-> EmptyDict],
     attribute_schema |-> [ldap |-> EmptyDict, common_name |-> EmptyDict, resolve |-> EmptyDict,
                           links |-> EmptyDict, unresolved |-> EmptyDict],
     links |-> [to |-> EmptyDict, from |-> EmptyDict],
     distinguished_names_tag_to_distinguished_names |-> EmptyDict,
     security_descriptors |-> EmptyDict,
     pek_list |-> None,
     raw_enc_pek_list |-> PyNone,
     is_adam |-> FALSE,
     kds_root_keys |-> <<>>,
     schema_pek_list |-> PyNone,
     root_pek_list |-> PyNone]

\* ------------------------------------------------------------------------
\* Calls of decryptSecret
\* ------------------------------------------------------------------------

Salt16 == Fill(16, 170)

KnownAlgorithms == {DB_RC4, DB_RC4_SALT, REP_RC4_SALT, DB_AES}

\* the algorithm IDs of the secrets tried: the four known ones, 0x14 and 0x1013
AlgorithmIds == KnownAlgorithms \cup {20, 4115}

PekIds == (0..MaxPek) \cup {256}

CipherLens == {0, 3} \cup {8 * i : i \in 1..MaxCipherBlocks}

\* a secret as it lies in the database: header, salt, ciphertext of n bytes
SecretBytes(algo, pekid, n) ==
    PackU16(algo) \o PackU16(0) \o PackU32(pekid) \o Salt16
        \o (IF algo = DB_AES THEN PackU32(n) ELSE <<>>) \o Fill(n, 85)

Secrets ==
    {SecretBytes(a, k, n) : a \in AlgorithmIds, k \in PekIds, n \in CipherLens}
        \cup {Take(SecretBytes(DB_RC4, 0, 0), t) : t \in {0, 1, 10}}
        \cup {Take(SecretBytes(DB_AES, 0, 0), 26)}

\* rid: absent, "500", and a rid that is no number
Rids == {<<>>, <<"5", "0", "0">>, <<"x">>}

\* a PEK_LIST that was constructed from a blob holding n keys
InitSecret ==
    /\ plainPekList \in {[i \in 1..n |-> PekKey(i - 1)] : n \in 0..MaxPek}
    /\ call = None
    /\ outcome = NoOutcome
    /\ pekInput = None
    /\ pekRaised = None
    /\ decryptedPek = None
    /\ NtdsNotOpened

\* pek_list.decryptSecret(rawSecret, rid, isHistory, hasDES, isADAM)
DecryptSecret ==
    /\ call = None
    /\ \E rawSecret \in Secrets, rid \in Rids, isHistory \in BOOLEAN, hasDES \in BOOLEAN,
          isADAM \in BOOLEAN, p \in LibPatterns, q \in LibPatterns :
          /\ call' = Some([rawSecret |-> rawSecret, rid |-> rid, isHistory |-> isHistory,
                           hasDES |-> hasDES, isADAM |-> isADAM])
          /\ outcome' = decryptSecret(plainPekList, rawSecret, rid, isHistory, hasDES, isADAM, p, q)
    /\ UNCHANGED <<plainPekList, pekVars, ntdsVars>>

\* the caller takes the result; the PEK list is ready for the next call
SecretReturn ==
    /\ call # None
    /\ call' = None
    /\ outcome' = NoOutcome
    /\ UNCHANGED <<plainPekList, pekVars, ntdsVars>>

NextSecret == DecryptSecret \/ SecretReturn

SpecSecret == InitSecret /\ [][NextSecret]_vars

\* ------------------------------------------------------------------------
\* Claims about decryptSecret (checked under SpecSecret)
\* ------------------------------------------------------------------------

\* the algorithm ID the header of the secret of the current call carries
CallAlgo == UnpackU16(Take(call[1].rawSecret, 2))

\* the outputs of the DES calls of the current call, in order
DesOutputs == [i \in 1..Len(SelectSeq(outcome.libCalls, LAMBDA c : c.fn = "DES")) |->
                  SelectSeq(outcome.libCalls, LAMBDA c : c.fn = "DES")[i].out]

\* C2: decryptSecret never lets an exception reach its caller: every call
\* returns a value.
C2_NoExceptionPropagates == call # None => outcome.ret.kind # "raise"

\* C3: the outer layer is stripped by the cipher the algorithm ID names: a DB_AES
\* secret by the AES helper keyed by plainPekList[PekID] with the salt as IV, an
\* RC4 secret (0x10, 0x11, 0x12) by RC4 keyed by MD5(plainPekList[PekID] || salt).
C3_LayerChosenByAlgorithm ==
    (call # None /\ outcome.libCalls # <<>>) =>
        LET first == outcome.libCalls[1]
            pek == plainPekList[outcome.pekReads[1] + 1]
        IN  IF CallAlgo = DB_AES
            THEN first.fn = "AES" /\ first.key = pek /\ first.iv = Salt16
            ELSE first.fn = "ARC4" /\ first.md5of = <<pek, Salt16>>

\* C4: a secret whose 16-bit algorithm ID is none of 0x10..0x13 makes
\* decryptSecret return "DEC_ERROR_INIT", with the PEK list not read and no
\* cipher called, whatever rid, isHistory, hasDES and isADAM are.
C4_UnknownAlgorithmInit ==
    (call # None /\ Len(call[1].rawSecret) >= 2 /\ CallAlgo \notin KnownAlgorithms) =>
        /\ outcome.ret.kind = "str"
        /\ outcome.ret.val = STR_DEC_ERROR_INIT
        /\ outcome.pekReads = <<>>
        /\ outcome.libCalls = <<>>

C4_Witness ==
    /\ call # None
    /\ Len(call[1].rawSecret) >= 24
    /\ CallAlgo = 4115
    /\ call[1].rid # <<>> /\ call[1].isHistory /\ call[1].hasDES /\ call[1].isADAM
    /\ plainPekList # <<>>
    /\ outcome.ret.kind = "str"
    /\ outcome.ret.val = STR_DEC_ERROR_INIT

COL_sd_id == <<"s", "d", "_", "i", "d">>

COL_sd_value == <<"s", "d", "_", "v", "a", "l", "u", "e">>

COL_backlink_DNT == <<"b", "a", "c", "k", "l", "i", "n", "k", "_", "D", "N", "T">>

COL_link_DNT == <<"l", "i", "n", "k", "_", "D", "N", "T">>

COL_link_base == <<"l", "i", "n", "k", "_", "b", "a", "s", "e">>

COL_link_deltime == <<"l", "i", "n", "k", "_", "d", "e", "l", "t", "i", "m", "e">>

COL_link_deactivetime == <<"l", "i", "n", "k", "_", "d", "e", "a", "c", "t", "i", "v", "e", "t", "i", "m", "e">>

COL_link_data == <<"l", "i", "n", "k", "_", "d", "a", "t", "a">>

RECURSIVE ParseSdTable(_, _)
\* "for record in self.sdtable.records()": the security descriptors after it
ParseSdTable(security_descriptors, records) ==
    IF Len(records) = 0 THEN security_descriptors
    ELSE LET record == Head(records)
             sd_id == PyStr(Str(Get(record, COL_sd_id)))
         IN  ParseSdTable(DictSet(security_descriptors, sd_id, Get(record, COL_sd_value)), Tail(records))

\* one record of the link table
ParseLinkRecord(links, record) ==
    LET backlink_dnt == PyStr(Str(Get(record, COL_backlink_DNT)))
        link_info == <<Get(record, COL_link_DNT), Get(record, COL_link_base), Get(record, COL_link_deltime),
                       Get(record, COL_link_deactivetime), Get(record, COL_link_data)>>
        to == IF backlink_dnt \notin DOMAIN links.to
              THEN DictSet(links.to, backlink_dnt, <<link_info>>) ELSE links.to
        link_dnt == PyStr(Str(Get(record, COL_link_DNT)))
        reverse_link_info == <<Get(record, COL_backlink_DNT), Get(record, COL_link_base),
                               Get(record, COL_link_deltime), Get(record, COL_link_deactivetime),
                               Get(record, COL_link_data)>>
        from == IF link_dnt \notin DOMAIN links.from
                THEN DictSet(links.from, link_dnt, <<reverse_link_info>>) ELSE links.from
    IN  [to |-> to, from |-> from]

RECURSIVE ParseLinkTable(_, _)
\* "for record in self.linktable.records()": the links after it
ParseLinkTable(links, records) ==
    IF Len(records) = 0 THEN links
    ELSE ParseLinkTable(ParseLinkRecord(links, Head(records)), Tail(records))

\* ------------------------------------------------------------------------
\* ntds.py: get_object_class, extract_object_id_name, serialize_record
\* ------------------------------------------------------------------------

\* get_object_class(record): a list as it is, a truthy scalar in a list, else []
get_object_class(record) ==
    LET record_object_class == Get(record, NAME_TO_INTERNAL.object_class) IN
    IF record_object_class.t = "list" THEN record_object_class.v
    ELSE IF Truthy(record_object_class) THEN <<record_object_class.v[1]>>
    ELSE <<>>

\* extract_object_id_name(object_id): the names, or None
extract_object_id_name(self, object_id) ==
    IF PyStr(IntToStr(object_id)) \in DOMAIN self.object_class_schema.resolve
    THEN Some(self.object_class_schema.resolve[PyStr(IntToStr(object_id))])
    ELSE None

RECURSIVE SerializeColumns(_, _, _, _)
\* the loop of serialize_record over the columns of the record, in their order
SerializeColumns(resolve, record, columns, columns_with_values) ==
    IF Len(columns) = 0 THEN columns_with_values
    ELSE LET col_name == Head(columns)
             value == Get(record, col_name)
         IN  SerializeColumns(resolve, record, Tail(columns),
                 IF PyStr(col_name) \in DOMAIN resolve
                 THEN DictSet(columns_with_values, resolve[PyStr(col_name)],
                              IF value.t = "bytes" THEN PyStr(Hexlify(value.v)) ELSE value)
                 ELSE columns_with_values)

\* serialize_record(record); column_names are the columns of the datatable
serialize_record(self, record, column_names) ==
    SerializeColumns(self.attribute_schema.resolve, record, column_names, EmptyDict)

\* ------------------------------------------------------------------------
\* ntds.py: NTDS.__build_schemas, one record of the datatable
\* ------------------------------------------------------------------------

\* What a branch leaves: the object and the messages it logged
Did(self, messages) == [self |-> self, log |-> messages]

\* update_attribute_schema(attr_id, common_name, ldap_name)
update_attribute_schema(self, attr_id, common_name, ldap_name) ==
    LET internal_name == IF attr_id \in DOMAIN self.datatable_columns_mapping
                         THEN PyStr(self.datatable_columns_mapping[attr_id]) ELSE PyNone
        a == self.attribute_schema
    IN  [self EXCEPT !.attribute_schema =
            [a EXCEPT !.resolve = DictSet(a.resolve, internal_name, <<common_name, ldap_name>>),
                      !.common_name = DictSet(a.common_name, common_name, internal_name),
                      !.ldap = DictSet(a.ldap, ldap_name, internal_name)]]

\* (mutant) the common_name index is not written
ClassSchemaBranch_no_common_name(self, record) ==
    LET governs_id == PyStr(Str(Get(record, NAME_TO_INTERNAL.governs_id)))
        ldap_name == Get(record, NAME_TO_INTERNAL.attribute_name_ldap)
        common_name == Get(record, NAME_TO_INTERNAL.attribute_name_common_name)
        o == self.object_class_schema
    IN  Did([self EXCEPT !.object_class_schema =
                [o EXCEPT !.resolve = DictSet(o.resolve, governs_id, <<common_name, ldap_name>>),
                          !.ldap = DictSet(o.ldap, ldap_name, governs_id)]], <<>>)

\* "if OCLID_CLASS_SCHEMA in object_classes:"
ClassSchemaBranch(self, record) ==
    LET governs_id == PyStr(Str(Get(record, NAME_TO_INTERNAL.governs_id)))
        ldap_name == Get(record, NAME_TO_INTERNAL.attribute_name_ldap)
        common_name == Get(record, NAME_TO_INTERNAL.attribute_name_common_name)
        o == self.object_class_schema
    IN  Did([self EXCEPT !.object_class_schema =
                [o EXCEPT !.resolve = DictSet(o.resolve, governs_id, <<common_name, ldap_name>>),
                          !.ldap = DictSet(o.ldap, ldap_name, governs_id),
                          !.common_name = DictSet(o.common_name, common_name, governs_id)]], <<>>)

\* the "if isinstance(link_id, int):" of the attribute branch
AttributeLinks(self, link_id, common_name, ldap_name) ==
    IF link_id.t = "int"
    THEN [self EXCEPT !.attribute_schema.links =
             DictSet(self.attribute_schema.links, PyStr(Str(link_id)), <<common_name, ldap_name>>)]
    ELSE self

\* (mutant) the attribute is mapped by attribute_id without looking it up
AttributeSchemaBranch_no_lookup(self, record) ==
    LET attr_id == Get(record, NAME_TO_INTERNAL.attribute_id)
        ldap_name == Get(record, NAME_TO_INTERNAL.attribute_name_ldap)
        common_name == Get(record, NAME_TO_INTERNAL.attribute_name_common_name)
        link_id == Get(record, NAME_TO_INTERNAL.link_id)
    IN  Did(update_attribute_schema(AttributeLinks(self, link_id, common_name, ldap_name),
                                    attr_id, common_name, ldap_name), <<>>)

\* (mutant) ms_ds_int_id is looked up before attribute_id
AttributeSchemaBranch_msds_first(self, record) ==
    LET attr_id == Get(record, NAME_TO_INTERNAL.attribute_id)
        msds_id == Get(record, NAME_TO_INTERNAL.ms_ds_int_id)
        ldap_name == Get(record, NAME_TO_INTERNAL.attribute_name_ldap)
        common_name == Get(record, NAME_TO_INTERNAL.attribute_name_common_name)
        link_id == Get(record, NAME_TO_INTERNAL.link_id)
        linked == AttributeLinks(self, link_id, common_name, ldap_name)
        mapping == self.datatable_columns_mapping
    IN  IF msds_id \in DOMAIN mapping THEN
            Did(update_attribute_schema(linked, msds_id, common_name, ldap_name), <<>>)
        ELSE IF attr_id \in DOMAIN mapping THEN
            Did(update_attribute_schema(linked, attr_id, common_name, ldap_name), <<>>)
        ELSE Did([linked EXCEPT !.attribute_schema.unresolved =
                     DictSet(linked.attribute_schema.unresolved, ldap_name, <<attr_id, msds_id, common_name>>)], <<>>)

\* "elif OCLID_ATTRIBUTE_SCHEMA in object_classes:"
AttributeSchemaBranch(self, record) ==
    LET attr_id == Get(record, NAME_TO_INTERNAL.attribute_id)
        msds_id == Get(record, NAME_TO_INTERNAL.ms_ds_int_id)
        ldap_name == Get(record, NAME_TO_INTERNAL.attribute_name_ldap)
        common_name == Get(record, NAME_TO_INTERNAL.attribute_name_common_name)
        link_id == Get(record, NAME_TO_INTERNAL.link_id)
        linked == AttributeLinks(self, link_id, common_name, ldap_name)
        mapping == self.datatable_columns_mapping
    IN  IF attr_id \in DOMAIN mapping THEN
            Did(update_attribute_schema(linked, attr_id, common_name, ldap_name), <<>>)
        ELSE IF msds_id \in DOMAIN mapping THEN
            Did(update_attribute_schema(linked, msds_id, common_name, ldap_name), <<>>)
        ELSE Did([linked EXCEPT !.attribute_schema.unresolved =
                     DictSet(linked.attribute_schema.unresolved, ldap_name,
                             <<DictGet(mapping, attr_id, attr_id), DictGet(mapping, msds_id, msds_id),
                               common_name>>)], <<>>)

\* (mutant) the DOMAIN_DNS branch leaves is_adam as it is
DomainDnsBranch_keeps_is_adam(self, record) ==
    Did([self EXCEPT !.raw_enc_pek_list = PyStr(Hexlify(Get(record, NAME_TO_INTERNAL.pek_list).v))],
        <<"Found pek_list">>)

\* the NTDS PEK list found in a domainDNS object
DomainDnsBranch(self, record) ==
    Did([self EXCEPT !.is_adam = FALSE,
                     !.raw_enc_pek_list = PyStr(Hexlify(Get(record, NAME_TO_INTERNAL.pek_list).v))],
        <<"Found pek_list">>)

\* the ADAM root PEK list
TopBranch(self, record) ==
    Did([self EXCEPT !.is_adam = TRUE, !.root_pek_list = Get(record, NAME_TO_INTERNAL.pek_list)],
        <<"ADAM_NTDS: Found root pek list">>)

\* the ADAM schema PEK list
DmdBranch(self, record) ==
    Did([self EXCEPT !.is_adam = TRUE, !.schema_pek_list = Get(record, NAME_TO_INTERNAL.pek_list)],
        <<"ADAM_NTDS: Found schema pek list">>)

\* the ADAM configuration PEK list
ConfigurationBranch(self, record) ==
    Did([self EXCEPT !.is_adam = TRUE,
                     !.raw_enc_pek_list = PyStr(Hexlify(Get(record, NAME_TO_INTERNAL.pek_list).v))],
        <<"ADAM_NTDS: Found pek_list">>)

\* the MS-GKDI root key
KdsBranch(self, record, column_names) ==
    Did([self EXCEPT !.kds_root_keys = Append(self.kds_root_keys, serialize_record(self, record, column_names))],
        <<"Found a RootKey for MS-GKDI">>)

\* the body of "for record in self.datatable.records()" for a record that is
\* not None: the if / elif chain
ScanRecord(self, record, column_names) ==
    LET object_classes == get_object_class(record)
        has_pek == Get(record, NAME_TO_INTERNAL.pek_list).t # "none"
    IN  IF InList(OCLID_CLASS_SCHEMA, object_classes) THEN ClassSchemaBranch(self, record)
        ELSE IF InList(OCLID_ATTRIBUTE_SCHEMA, object_classes) THEN AttributeSchemaBranch(self, record)
        ELSE IF ~Truthy(self.raw_enc_pek_list) /\ InList(OCLID_DOMAIN_DNS, object_classes) /\ has_pek
            THEN DomainDnsBranch(self, record)
        ELSE IF object_classes = <<OCLID_TOP>> /\ has_pek THEN TopBranch(self, record)
        ELSE IF InList(OCLID_DMD, object_classes) /\ has_pek THEN DmdBranch(self, record)
        ELSE IF InList(OCLID_CONFIGURATION, object_classes) /\ has_pek THEN ConfigurationBranch(self, record)
        ELSE IF InList(OCLID_KDS_PROV_ROOT_KEY, object_classes) THEN KdsBranch(self, record, column_names)
        ELSE Did(self, <<>>)

\* ------------------------------------------------------------------------
\* ntds.py: build_dns, __decrypt_pek_list, dump_ntds_dit
\* ------------------------------------------------------------------------

\* f"{x}" of a str, an int or None
Format(x) == IF x.t = "str" THEN x.v ELSE Str(x)

\* A stored distinguished name: the list [cn form, ldap form], or
\* [cn form, ldap form, parent_dn] with the parent's list as its third element
DnList(tdn, parent_dn) == [tdn |-> tdn, parent |-> parent_dn]

\* What build_dns has done so far
DnState(dns, remaining, exc) == [dns |-> dns, remaining |-> remaining, raised |-> exc]

\* the body of the loop of build_dns; record is None or a record, collect is
\* "remaining is not None"
build_dns_record(resolve, record, collect, st) ==
    IF Len(record) = 0 THEN [st EXCEPT !.raised = "AttributeError"]
    ELSE IF Get(record[1], NAME_TO_INTERNAL.rdn).t = "none" \/ ~Truthy(Get(record[1], COL_PDNT)) THEN st
    ELSE
        LET parent_key == PyStr(Str(Get(record[1], COL_PDNT)))
            parent_dn == IF parent_key \in DOMAIN st.dns THEN Some(st.dns[parent_key]) ELSE None
            remaining == IF parent_dn = None /\ collect THEN Append(st.remaining, record) ELSE st.remaining
            names == DictGet(resolve, PyStr(STR_ATTm \o Str(Get(record[1], COL_RDNtyp))),
                             <<PyStr(STR_Common_Name), PyStr(STR_cn)>>)
            rdn == Format(Get(record[1], NAME_TO_INTERNAL.rdn))
        IN  IF names[1].t # "str" \/ names[2].t # "str"
            THEN DnState(st.dns, remaining, "AttributeError")
            ELSE DnState(DictSet(st.dns, PyStr(Str(Get(record[1], COL_DNT))),
                                 DnList(<<Upper(names[1].v) \o <<"=">> \o rdn, Upper(names[2].v) \o <<"=">> \o rdn>>,
                                        parent_dn)),
                         remaining, "")

RECURSIVE build_dns(_, _, _, _)
\* build_dns(iterator, remaining), stopping where a record raises
build_dns(resolve, iterator, collect, st) ==
    IF Len(iterator) = 0 \/ st.raised # "" THEN st
    ELSE build_dns(resolve, Tail(iterator), collect, build_dns_record(resolve, Head(iterator), collect, st))

\* the two passes at the end of __build_schemas
BuildDistinguishedNames(self, records) ==
    LET one == build_dns(self.attribute_schema.resolve, records, TRUE,
                         DnState(self.distinguished_names_tag_to_distinguished_names, <<>>, ""))
    IN  IF one.raised = "" /\ Len(one.remaining) > 0
        THEN build_dns(self.attribute_schema.resolve, one.remaining, FALSE, one)
        ELSE one

\* the bytes the library cipher is asked for when PEK_LIST reads the blob
PekLibOut(blob, p) ==
    IF Len(blob) < 24 THEN <<>>
    ELSE IF Take(blob, 4) = HEADER_B THEN LibOutput(p, PaddedLen(Len(blob) - 24))
    ELSE LibOutput(p, Len(blob) - 24)

\* __decrypt_pek_list(): the object after it, or the exception of PEK_LIST
decrypt_pek_list(self, p) ==
    IF self.raw_enc_pek_list.t # "none" /\ self.boot_key # None
    THEN LET blob == Unhexlify(self.raw_enc_pek_list.v)
             pek == PEK_LIST_init(blob, self.boot_key[1], PekLibOut(blob, p))
         IN  IF pek.raised # None THEN [self |-> self, raised |-> pek.raised[1]]
             ELSE [self |-> [self EXCEPT !.pek_list = Some(pek)], raised |-> ""]
    ELSE [self |-> self, raised |-> ""]

RECURSIVE NonZero(_)
\* [object_class for object_class in object_classes if object_class]
NonZero(object_classes) ==
    IF Len(object_classes) = 0 THEN <<>>
    ELSE IF Head(object_classes) # 0 THEN <<Head(object_classes)>> \o NonZero(Tail(object_classes))
    ELSE NonZero(Tail(object_classes))

\* What dump_ntds_dit has done so far: what it yielded, the serialized forms
\* it computed, the exception it raised
DumpState(yielded, serialized, exc) == [yielded |-> yielded, serialized |-> serialized, raised |-> exc]

\* the body of the loop of dump_ntds_dit
dump_record(self, record, skip_deleted, column_names, st) ==
    IF Len(record) = 0 THEN [st EXCEPT !.raised = "AttributeError"]
    ELSE IF Truthy(Get(record[1], NAME_TO_INTERNAL.is_deleted)) /\ skip_deleted THEN st
    ELSE IF Len(NonZero(get_object_class(record[1]))) = 0 THEN st
    ELSE [st EXCEPT !.serialized = Append(st.serialized, serialize_record(self, record[1], column_names))]

RECURSIVE dump_loop(_, _, _, _, _)
dump_loop(self, records, skip_deleted, column_names, st) ==
    IF Len(records) = 0 \/ st.raised # "" THEN st
    ELSE dump_loop(self, Tail(records), skip_deleted, column_names,
                   dump_record(self, Head(records), skip_deleted, column_names, st))

\* dump_ntds_dit(skip_deleted): the function has no yield
dump_ntds_dit(self, records, skip_deleted, column_names) ==
    dump_loop(self, records, skip_deleted, column_names, DumpState(<<>>, <<>>, ""))

\* ------------------------------------------------------------------------
\* NTDS(ntds_path, boot_key) step by step, then dump_ntds_dit on the object
\* ------------------------------------------------------------------------

\* PEK_LIST is not used on its own while an NTDS object is followed
NoPekListAlone ==
    /\ plainPekList = <<>>
    /\ call = None
    /\ outcome = NoOutcome
    /\ pekInput = None
    /\ pekRaised = None
    /\ decryptedPek = None

cryptoVars == <<plainPekList, call, outcome, pekInput, pekRaised, decryptedPek>>

\* a database: the records of a table are records, or None where the
\* datatable gives none
Database(column_names, datatable, linktable, sdtable, boot_key) ==
    [column_names |-> column_names, datatable |-> datatable, linktable |-> linktable,
     sdtable |-> sdtable, boot_key |-> boot_key]

\* NTDS.__init__ up to the call of __build_schemas, on one of the databases
InitNtds(databases) ==
    /\ db \in databases
    /\ ntds = NewNTDS(db.column_names, db.boot_key)
    /\ pc = "sdtable"
    /\ cursor = 1
    /\ log = <<>>
    /\ raised = ""
    /\ dumped = None
    /\ called = None
    /\ NoPekListAlone

\* "for record in self.sdtable.records()"
ParseSd ==
    /\ pc = "sdtable"
    /\ ntds' = [ntds EXCEPT !.security_descriptors = ParseSdTable(ntds.security_descriptors, db.sdtable)]
    /\ pc' = "linktable"
    /\ UNCHANGED <<db, cursor, log, raised, dumped, called, cryptoVars>>

\* "for record in self.linktable.records()"
ParseLinks ==
    /\ pc = "linktable"
    /\ ntds' = [ntds EXCEPT !.links = ParseLinkTable(ntds.links, db.linktable)]
    /\ pc' = IF Len(db.datatable) = 0 THEN "dns" ELSE "datatable"
    /\ UNCHANGED <<db, cursor, log, raised, dumped, called, cryptoVars>>

\* one round of "for record in self.datatable.records()": a None record ends
\* the loop, any other goes through the if / elif chain
ScanDatatable ==
    /\ pc = "datatable"
    /\ LET record == db.datatable[cursor] IN
       IF Len(record) = 0 THEN
           /\ pc' = "dns"
           /\ UNCHANGED <<ntds, cursor, log>>
       ELSE
           LET did == ScanRecord(ntds, record[1], db.column_names) IN
           /\ ntds' = did.self
           /\ log' = log \o did.log
           /\ cursor' = cursor + 1
           /\ pc' = IF cursor = Len(db.datatable) THEN "dns" ELSE "datatable"
    /\ UNCHANGED <<db, raised, dumped, called, cryptoVars>>

\* the two build_dns passes; an exception leaves __init__
BuildDns ==
    /\ pc = "dns"
    /\ LET st == BuildDistinguishedNames(ntds, db.datatable) IN
       /\ ntds' = [ntds EXCEPT !.distinguished_names_tag_to_distinguished_names = st.dns]
       /\ raised' = st.raised
       /\ pc' = IF st.raised = "" THEN "pek" ELSE "raised"
    /\ UNCHANGED <<db, cursor, log, dumped, called, cryptoVars>>

\* self.__decrypt_pek_list(), the last statement of __init__
DecryptPekList ==
    /\ pc = "pek"
    /\ \E p \in LibPatterns :
          LET r == decrypt_pek_list(ntds, p) IN
          /\ ntds' = r.self
          /\ raised' = r.raised
          /\ pc' = IF r.raised = "" THEN "ready" ELSE "raised"
    /\ UNCHANGED <<db, cursor, log, dumped, called, cryptoVars>>

\* (mutant) the method drops the security descriptors it has gone through
MethodCall_drops_descriptors(self, result) ==
    [self |-> [self EXCEPT !.security_descriptors = EmptyDict], result |-> result]

\* a call of serialize_record, get_object_class, extract_object_id_name or
\* dump_ntds_dit: none of them assigns to a field of self or changes one of
\* its dicts or lists, so the object after the call is the object before it
MethodCall(self, result) == [self |-> self, result |-> result]

\* ntds.dump_ntds_dit(skip_deleted) on the constructed object
Dump ==
    /\ pc = "ready"
    /\ \E skip_deleted \in BOOLEAN :
          LET c == MethodCall(ntds, dump_ntds_dit(ntds, db.datatable, skip_deleted, db.column_names)) IN
          /\ dumped' = Some([skip_deleted |-> skip_deleted, did |-> c.result])
          /\ ntds' = c.self
    /\ UNCHANGED <<db, pc, cursor, log, raised, called, cryptoVars>>

\* ntds.serialize_record(record) on a record of the datatable
SerializeRecord ==
    /\ pc = "ready"
    /\ \E i \in 1..Len(db.datatable) :
          LET c == MethodCall(ntds, serialize_record(ntds, db.datatable[i][1], db.column_names)) IN
          /\ Len(db.datatable[i]) > 0
          /\ called' = Some([method |-> "serialize_record", arg |-> i, result |-> c.result])
          /\ ntds' = c.self
    /\ UNCHANGED <<db, pc, cursor, log, raised, dumped, cryptoVars>>

\* ntds.get_object_class(record) on a record of the datatable
GetObjectClass ==
    /\ pc = "ready"
    /\ \E i \in 1..Len(db.datatable) :
          LET c == MethodCall(ntds, get_object_class(db.datatable[i][1])) IN
          /\ Len(db.datatable[i]) > 0
          /\ called' = Some([method |-> "get_object_class", arg |-> i, result |-> c.result])
          /\ ntds' = c.self
    /\ UNCHANGED <<db, pc, cursor, log, raised, dumped, cryptoVars>>

\* ntds.extract_object_id_name(object_id) on a class of the schema or another
ExtractObjectIdName ==
    /\ pc = "ready"
    /\ \E object_id \in {OCLID_TOP, 5} :
          LET c == MethodCall(ntds, extract_object_id_name(ntds, object_id)) IN
          /\ called' = Some([method |-> "extract_object_id_name", arg |-> object_id, result |-> c.result])
          /\ ntds' = c.self
    /\ UNCHANGED <<db, pc, cursor, log, raised, dumped, cryptoVars>>

Next ==
    \/ ParseSd
    \/ ParseLinks
    \/ ScanDatatable
    \/ BuildDns
    \/ DecryptPekList
    \/ Dump

\* construction, then any of the methods of the object
NextCalls == Next \/ SerializeRecord \/ GetObjectClass \/ ExtractObjectIdName

\* ------------------------------------------------------------------------
\* The databases NTDS is followed on
\* ------------------------------------------------------------------------

\* the largest number of records in a datatable
MaxRecords == 3

\* a record from its non-null columns: pairs of a column name and a value
Row(pairs) ==
    [c \in {pairs[i][1] : i \in 1..Len(pairs)} |-> pairs[CHOOSE i \in 1..Len(pairs) : pairs[i][1] = c][2]]

\* the tables of at most n records drawn from rows
Tables(rows, n) == UNION {[1..k -> rows] : k \in 0..n}

\* the columns every datatable has
BaseColumns ==
    <<COL_DNT, COL_PDNT, COL_RDNtyp, NAME_TO_INTERNAL.rdn, NAME_TO_INTERNAL.pek_list,
      NAME_TO_INTERNAL.attribute_id, NAME_TO_INTERNAL.attribute_name_ldap,
      NAME_TO_INTERNAL.attribute_name_common_name, NAME_TO_INTERNAL.ms_ds_int_id,
      NAME_TO_INTERNAL.governs_id, NAME_TO_INTERNAL.object_class, NAME_TO_INTERNAL.link_id,
      NAME_TO_INTERNAL.is_deleted>>

\* a link table with two links of the same object, and an sd table
LinkTable ==
    <<Row(<<<<COL_link_DNT, PyInt(1)>>, <<COL_backlink_DNT, PyInt(2)>>, <<COL_link_base, PyInt(1)>>>>),
      Row(<<<<COL_link_DNT, PyInt(3)>>, <<COL_backlink_DNT, PyInt(2)>>, <<COL_link_base, PyInt(1)>>>>)>>

SdTable == <<Row(<<<<COL_sd_id, PyInt(7)>>, <<COL_sd_value, PyBytes(<<1, 0>>)>>>>)>>

\* the databases with one of the column lists, a datatable of the rows, and
\* one of the boot keys
Databases(columns, rows, boot_keys) ==
    {Database(c, t, LinkTable, SdTable, b) : c \in columns, t \in Tables(rows, MaxRecords), b \in boot_keys}

\* a CLASS_SCHEMA row
ClassRow(object_class, governs_id, common_name, ldap_name) ==
    Row(<<<<NAME_TO_INTERNAL.object_class, object_class>>, <<NAME_TO_INTERNAL.governs_id, PyInt(governs_id)>>,
          <<NAME_TO_INTERNAL.attribute_name_common_name, PyStr(common_name)>>,
          <<NAME_TO_INTERNAL.attribute_name_ldap, PyStr(ldap_name)>>>>)

\* class rows that share an LDAP name, a common name or a governs_id, a row
\* with null names and governs_id, a row whose object class is not a list, a
\* row that is also an attribute, a row with a null common name; no row
ClassRows ==
    {Some(ClassRow(PyList(<<OCLID_CLASS_SCHEMA>>), 5, <<"U">>, <<"u">>)),
     Some(ClassRow(PyList(<<OCLID_CLASS_SCHEMA>>), 6, <<"G">>, <<"u">>)),
     Some(ClassRow(PyList(<<OCLID_CLASS_SCHEMA>>), 5, <<"G">>, <<"g">>)),
     Some(Row(<<<<NAME_TO_INTERNAL.object_class, PyList(<<OCLID_CLASS_SCHEMA>>)>>>>)),
     Some(ClassRow(PyInt(OCLID_CLASS_SCHEMA), 7, <<"T">>, <<"t">>)),
     Some(Row(<<<<NAME_TO_INTERNAL.object_class, PyList(<<OCLID_TOP, OCLID_CLASS_SCHEMA, OCLID_ATTRIBUTE_SCHEMA>>)>>,
                <<NAME_TO_INTERNAL.governs_id, PyInt(8)>>,
                <<NAME_TO_INTERNAL.attribute_name_ldap, PyStr(<<"w">>)>>>>)),
     None}

InitClass == InitNtds(Databases({BaseColumns}, ClassRows, {Some(BootKey)}))

SpecClass == InitClass /\ [][Next]_vars

\* an ATTRIBUTE_SCHEMA row with names
AttributeRow(ids, common_name, ldap_name) ==
    Row(<<<<NAME_TO_INTERNAL.object_class, PyList(<<OCLID_TOP, OCLID_ATTRIBUTE_SCHEMA>>)>>,
          <<NAME_TO_INTERNAL.attribute_name_common_name, PyStr(common_name)>>,
          <<NAME_TO_INTERNAL.attribute_name_ldap, PyStr(ldap_name)>>>> \o ids)

\* attribute rows: attribute_id is a column, and ms_ds_int_id too where the
\* datatable has it; ms_ds_int_id is a column where the datatable has it, and
\* a link; neither is a column; all null; attribute_id is no column and
\* ms_ds_int_id is; a row that is a class too; no row
AttributeRows ==
    {Some(AttributeRow(<<<<NAME_TO_INTERNAL.attribute_id, PyInt(3)>>, <<NAME_TO_INTERNAL.ms_ds_int_id, PyInt(1234)>>>>,
                       <<"N">>, <<"n">>)),
     Some(AttributeRow(<<<<NAME_TO_INTERNAL.attribute_id, PyInt(9000)>>, <<NAME_TO_INTERNAL.ms_ds_int_id, PyInt(1234)>>,
                         <<NAME_TO_INTERNAL.link_id, PyInt(2)>>>>, <<"M">>, <<"m">>)),
     Some(AttributeRow(<<<<NAME_TO_INTERNAL.attribute_id, PyInt(9000)>>>>, <<"X">>, <<"x">>)),
     Some(Row(<<<<NAME_TO_INTERNAL.object_class, PyList(<<OCLID_ATTRIBUTE_SCHEMA>>)>>>>)),
     Some(AttributeRow(<<<<NAME_TO_INTERNAL.attribute_id, PyInt(9001)>>, <<NAME_TO_INTERNAL.ms_ds_int_id, PyInt(3)>>>>,
                       <<"Y">>, <<"y">>)),
     Some(Row(<<<<NAME_TO_INTERNAL.object_class, PyList(<<OCLID_CLASS_SCHEMA, OCLID_ATTRIBUTE_SCHEMA>>)>>,
                <<NAME_TO_INTERNAL.attribute_id, PyInt(3)>>, <<NAME_TO_INTERNAL.governs_id, PyInt(8)>>,
                <<NAME_TO_INTERNAL.attribute_name_common_name, PyStr(<<"W">>)>>,
                <<NAME_TO_INTERNAL.attribute_name_ldap, PyStr(<<"w">>)>>>>)),
     None}

\* the column lists: the base, one more attribute column, and a second column
\* with the number of another
AttributeColumns ==
    {BaseColumns, Append(BaseColumns, <<"A", "T", "T", "m", "1", "2", "3", "4">>), Append(BaseColumns, <<"A", "T", "T", "b", "3">>)}

InitAttribute == InitNtds(Databases(AttributeColumns, AttributeRows, {Some(BootKey)}))

SpecAttribute == InitAttribute /\ [][Next]_vars

\* a row with object classes and a PEK blob
PekRow(object_classes, blob) ==
    Row(<<<<NAME_TO_INTERNAL.object_class, PyList(object_classes)>>, <<NAME_TO_INTERNAL.pek_list, PyBytes(blob)>>>>)

\* rows with PEK blobs: a domainDNS row with a Scheme A blob of one key and
\* one with a blob cut short, a row of class TOP alone, a DMD row, a
\* CONFIGURATION row with a blob of an unknown header and one with an empty
\* blob, a KDS root key; no row
PekRows ==
    {Some(PekRow(<<OCLID_TOP, OCLID_DOMAIN_DNS>>, PekBlob(HEADER_A, Fill(52, 0)))),
     Some(PekRow(<<OCLID_TOP, OCLID_DOMAIN_DNS>>, HEADER_B)),
     Some(PekRow(<<OCLID_TOP>>, <<1>>)),
     Some(PekRow(<<OCLID_TOP, OCLID_DMD>>, <<2>>)),
     Some(PekRow(<<OCLID_TOP, OCLID_CONFIGURATION>>, <<9, 0, 0, 0>> \o Fill(20, 0))),
     Some(PekRow(<<OCLID_TOP, OCLID_CONFIGURATION>>, <<>>)),
     Some(Row(<<<<NAME_TO_INTERNAL.object_class, PyList(<<OCLID_TOP, OCLID_KDS_PROV_ROOT_KEY>>)>>>>)),
     None}

InitPekRows == InitNtds(Databases({BaseColumns}, PekRows, {Some(BootKey)}))

SpecPekRows == InitPekRows /\ [][Next]_vars

\* an object with a name: its DNT, its parent's DNT, its RDN
NamedRow(dnt, pdnt, rdn) ==
    Row(<<<<NAME_TO_INTERNAL.object_class, PyList(<<OCLID_TOP>>)>>, <<COL_DNT, PyInt(dnt)>>,
          <<COL_PDNT, PyInt(pdnt)>>, <<COL_RDNtyp, PyInt(3)>>, <<NAME_TO_INTERNAL.rdn, PyStr(rdn)>>>>)

\* named rows: a grandchild, its parent, the parent of that (whose own parent
\* 9 has PDNT 0), a row without RDN, the attribute row of the RDN type with
\* null names; no row
NamedRows ==
    {Some(NamedRow(3, 2, <<"g">>)), Some(NamedRow(2, 1, <<"c">>)), Some(NamedRow(1, 9, <<"p">>)),
     Some(NamedRow(9, 0, <<"r">>)),
     Some(Row(<<<<NAME_TO_INTERNAL.object_class, PyList(<<OCLID_TOP>>)>>, <<COL_DNT, PyInt(4)>>,
                <<COL_PDNT, PyInt(1)>>>>)),
     Some(Row(<<<<NAME_TO_INTERNAL.object_class, PyList(<<OCLID_ATTRIBUTE_SCHEMA>>)>>,
                <<NAME_TO_INTERNAL.attribute_id, PyInt(3)>>>>)),
     None}

InitNamed == InitNtds(Databases({BaseColumns}, NamedRows, {None}))

SpecNamed == InitNamed /\ [][Next]_vars

\* an object of the directory: its classes, its deleted flag, its name
ObjectRow(object_classes, is_deleted, name) ==
    Row(<<<<NAME_TO_INTERNAL.object_class, PyList(object_classes)>>, <<NAME_TO_INTERNAL.is_deleted, is_deleted>>,
          <<NAME_TO_INTERNAL.attribute_name_common_name, name>>>>)

\* objects: a live one, a deleted one, one whose only class is 0, one without
\* classes, the rows that define class TOP and the common name attribute; no
\* row
ObjectRows ==
    {Some(ObjectRow(<<OCLID_TOP, 5>>, PyNone, PyStr(<<"a">>))),
     Some(ObjectRow(<<OCLID_TOP>>, PyInt(1), PyBytes(<<171>>))),
     Some(ObjectRow(<<0>>, PyNone, PyStr(<<"z">>))),
     Some(Row(<<<<NAME_TO_INTERNAL.attribute_name_common_name, PyStr(<<"e">>)>>>>)),
     Some(ClassRow(PyList(<<OCLID_CLASS_SCHEMA>>), OCLID_TOP, <<"T", "o", "p">>, <<"t", "o", "p">>)),
     Some(AttributeRow(<<<<NAME_TO_INTERNAL.attribute_id, PyInt(3)>>>>, <<"C", "o", "m", "m", "o", "n", "-", "N", "a", "m", "e">>, <<"c", "n">>)),
     None}

Init == InitNtds(Databases({BaseColumns}, ObjectRows, {Some(BootKey)}))

Spec == Init /\ [][Next]_vars

\* objects to call the methods on: a live one, a deleted one, a KDS root key,
\* the rows that define class TOP and the common name attribute; no row
CallRows ==
    {Some(ObjectRow(<<OCLID_TOP, 5>>, PyNone, PyStr(<<"a">>))),
     Some(ObjectRow(<<OCLID_TOP>>, PyInt(1), PyBytes(<<171>>))),
     Some(ObjectRow(<<OCLID_KDS_PROV_ROOT_KEY>>, PyNone, PyStr(<<"k">>))),
     Some(ClassRow(PyList(<<OCLID_CLASS_SCHEMA>>), OCLID_TOP, <<"T", "o", "p">>, <<"t", "o", "p">>)),
     Some(AttributeRow(<<<<NAME_TO_INTERNAL.attribute_id, PyInt(3)>>>>,
                       <<"C", "o", "m", "m", "o", "n", "-", "N", "a", "m", "e">>, <<"c", "n">>)),
     None}

InitCalls == InitNtds(Databases({BaseColumns}, CallRows, {Some(BootKey)}))

SpecCalls == InitCalls /\ [][NextCalls]_vars

\* ------------------------------------------------------------------------
\* Claims about dump_ntds_dit (checked under Spec)
\* ------------------------------------------------------------------------

\* the records of the datatable whose is_deleted is not truthy, in order
NonDeleted == SelectSeq(db.datatable, LAMBDA r : ~Truthy(Get(r[1], NAME_TO_INTERNAL.is_deleted)))

\* C1: a dump with skip_deleted set that ended without an exception has
\* emitted the serialized form of every record whose is_deleted is not
\* truthy, once each and in order, and nothing else; so it emitted as many
\* items as there are such records
C1_DumpEmitsNonDeleted ==
    (Len(dumped) > 0 /\ dumped[1].skip_deleted /\ dumped[1].did.raised = "") =>
        /\ Len(dumped[1].did.yielded) = Len(NonDeleted)
        /\ dumped[1].did.yielded =
               [i \in 1..Len(NonDeleted) |-> serialize_record(ntds, NonDeleted[i][1], db.column_names)]

\* ------------------------------------------------------------------------
\* Claims about the class schema (checked under SpecClass)
\* ------------------------------------------------------------------------

\* the CLASS_SCHEMA rows the datatable loop has gone through, as
\* (governs_id as the key it is stored under, common name, LDAP name)
ClassTriples ==
    LET scanned == SubSeq(db.datatable, 1, cursor - 1)
        rows == SelectSeq(scanned, LAMBDA r : InList(OCLID_CLASS_SCHEMA, get_object_class(r[1])))
    IN  [i \in 1..Len(rows) |->
            <<PyStr(Str(Get(rows[i][1], NAME_TO_INTERNAL.governs_id))),
              Get(rows[i][1], NAME_TO_INTERNAL.attribute_name_common_name),
              Get(rows[i][1], NAME_TO_INTERNAL.attribute_name_ldap)>>]

\* resolve[g] = (cn, ldap) if and only if ldap[ldap] = g and common_name[cn] = g,
\* for every g, cn and ldap the three views mention
ClassIndexesInverse ==
    LET o == ntds.object_class_schema
        gs == DOMAIN o.resolve \cup {o.ldap[l] : l \in DOMAIN o.ldap} \cup {o.common_name[c] : c \in DOMAIN o.common_name}
        cns == DOMAIN o.common_name \cup {o.resolve[g][1] : g \in DOMAIN o.resolve}
        ldaps == DOMAIN o.ldap \cup {o.resolve[g][2] : g \in DOMAIN o.resolve}
    IN  \A g \in gs, cn \in cns, ldap \in ldaps :
            (g \in DOMAIN o.resolve /\ o.resolve[g] = <<cn, ldap>>)
            <=> (ldap \in DOMAIN o.ldap /\ o.ldap[ldap] = g /\ cn \in DOMAIN o.common_name /\ o.common_name[cn] = g)

\* C7 as stated: after the schema bootstrap the ldap and common_name indexes
\* of object_class_schema are exact inverses of resolve, whatever the
\* CLASS_SCHEMA rows share
C7_IndexesInverse == pc = "ready" => ClassIndexesInverse

\* any two CLASS_SCHEMA rows gone through are the same in governs_id, common
\* name and LDAP name, or differ in all three (null is a name like any other)
ClassRowsDistinct ==
    \A i, j \in 1..Len(ClassTriples) :
        \/ ClassTriples[i] = ClassTriples[j]
        \/ /\ ClassTriples[i][1] # ClassTriples[j][1]
           /\ ClassTriples[i][2] # ClassTriples[j][2]
           /\ ClassTriples[i][3] # ClassTriples[j][3]

\* C7 (amended): while no two CLASS_SCHEMA rows gone through share a
\* governs_id, a common name or an LDAP name without being equal in all
\* three, the ldap and common_name indexes are exact inverses of resolve
C7_IndexesInverseWhenDistinct == ClassRowsDistinct => ClassIndexesInverse

\* C7 witness: the bootstrap is over, it went through two different class
\* rows that share nothing, one of them with null names
C7_Witness ==
    /\ pc = "ready"
    /\ ClassRowsDistinct
    /\ Cardinality(DOMAIN ntds.object_class_schema.resolve) >= 2
    /\ PyNone \in DOMAIN ntds.object_class_schema.ldap

\* ------------------------------------------------------------------------
\* Claims about the attribute schema (checked under SpecAttribute)
\* ------------------------------------------------------------------------

\* C8: every key of attribute_schema.resolve is a string whose characters
\* after the fourth are a decimal integer n, n is a key of
\* datatable_columns_mapping, and the mapping gives that same string for n
C8_ResolveKeysAreColumns ==
    \A k \in DOMAIN ntds.attribute_schema.resolve :
        /\ k.t = "str"
        /\ IsDecimal(Drop(k.v, 4))
        /\ PyInt(ParseInt(Drop(k.v, 4))) \in DOMAIN ntds.datatable_columns_mapping
        /\ ntds.datatable_columns_mapping[PyInt(ParseInt(Drop(k.v, 4)))] = k.v

\* C8 witness: the bootstrap is over, an attribute was resolved through its
\* ms_ds_int_id, and an attribute that is no column was left unresolved
C8_Witness ==
    /\ pc = "ready"
    /\ PyStr(<<"A", "T", "T", "m", "1", "2", "3", "4">>) \in DOMAIN ntds.attribute_schema.resolve
    /\ PyStr(<<"x">>) \in DOMAIN ntds.attribute_schema.unresolved

\* ------------------------------------------------------------------------
\* Claims about the distinguished names (checked under SpecNamed)
\* ------------------------------------------------------------------------

\* C9: once the names are built, every record that has an entry and whose
\* parent has an entry is stored as its own RDN components followed by the
\* entry its parent has now
C9_TailIsParent ==
    pc \in {"pek", "ready"} =>
        \A i \in 1..Len(db.datatable) :
            LET record == db.datatable[i][1]
                dns == ntds.distinguished_names_tag_to_distinguished_names
                child == PyStr(Str(Get(record, COL_DNT)))
                parent == PyStr(Str(Get(record, COL_PDNT)))
            IN  (child \in DOMAIN dns /\ Truthy(Get(record, COL_PDNT)) /\ parent \in DOMAIN dns)
                    => dns[child].parent = Some(dns[parent])

\* ------------------------------------------------------------------------
\* Claims about is_adam (checked under SpecPekRows)
\* ------------------------------------------------------------------------

\* an ADAM-specific PEK slot was populated: root_pek_list, schema_pek_list,
\* or the blob of a CONFIGURATION row
AdamSlotPopulated ==
    \/ ntds.root_pek_list.t # "none"
    \/ ntds.schema_pek_list.t # "none"
    \/ InList("ADAM_NTDS: Found pek_list", log)

\* C10 as stated: after init, is_adam is true if and only if an ADAM-specific
\* PEK slot was populated during the scan
C10_AdamIffSlotPopulated == pc = "ready" => (ntds.is_adam <=> AdamSlotPopulated)

\* the messages of the rows that populated a PEK slot, in order
PekMessages == SelectSeq(log, LAMBDA m : m # "Found a RootKey for MS-GKDI")

\* C10 (amended): is_adam is true if and only if the last row that populated
\* a PEK slot populated an ADAM-specific one; a domainDNS row that populates
\* the PEK blob makes it false again
C10_AdamIffLastSlotIsAdam ==
    ntds.is_adam <=> (Len(PekMessages) > 0 /\ PekMessages[Len(PekMessages)] # "Found pek_list")

\* C10 witness: init is over, the root PEK list was populated and a domainDNS
\* row populated the PEK blob after it
C10_Witness ==
    /\ pc = "ready"
    /\ ntds.root_pek_list.t # "none"
    /\ Len(PekMessages) > 1
    /\ PekMessages[Len(PekMessages)] = "Found pek_list"

\* ------------------------------------------------------------------------
\* Claims about the link table pass (checked under Spec)
\* ------------------------------------------------------------------------

\* the entry a row of the link table has under to, and the one under from
LinkToEntry(r) ==
    <<Get(r, COL_link_DNT), Get(r, COL_link_base), Get(r, COL_link_deltime),
      Get(r, COL_link_deactivetime), Get(r, COL_link_data)>>

LinkFromEntry(r) ==
    <<Get(r, COL_backlink_DNT), Get(r, COL_link_base), Get(r, COL_link_deltime),
      Get(r, COL_link_deactivetime), Get(r, COL_link_data)>>

\* the entries, in the order of the table, of the rows whose column col is k
LinkEntriesOf(col, k, Entry(_)) ==
    LET rows == SelectSeq(db.linktable, LAMBDA r : PyStr(Str(Get(r, col))) = k)
    IN  [i \in 1..Len(rows) |-> Entry(rows[i])]

\* C11: after the link table pass, links.to[k] holds one entry per row whose
\* backlink_DNT is k and links.from[k] one symmetric entry per row whose
\* link_DNT is k, so that a DNT with several links keeps all of them
C11_EveryLinkRecorded ==
    pc \notin {"sdtable", "linktable"} =>
        \A i \in 1..Len(db.linktable) :
            LET to == PyStr(Str(Get(db.linktable[i], COL_backlink_DNT)))
                from == PyStr(Str(Get(db.linktable[i], COL_link_DNT)))
            IN  /\ to \in DOMAIN ntds.links.to
                /\ ntds.links.to[to] = LinkEntriesOf(COL_backlink_DNT, to, LinkToEntry)
                /\ from \in DOMAIN ntds.links.from
                /\ ntds.links.from[from] = LinkEntriesOf(COL_link_DNT, from, LinkFromEntry)

\* ------------------------------------------------------------------------
\* Claims about the constructed object (checked under SpecCalls)
\* ------------------------------------------------------------------------

\* the schema maps, dnt_to_dn, links, security_descriptors, pek_list and
\* kds_root_keys
CoreState ==
    <<ntds.object_class_schema, ntds.attribute_schema, ntds.datatable_columns_mapping,
      ntds.distinguished_names_tag_to_distinguished_names, ntds.links, ntds.security_descriptors,
      ntds.pek_list, ntds.kds_root_keys>>

\* C12: once construction has finished, no call of dump_ntds_dit,
\* serialize_record, get_object_class or extract_object_id_name changes the
\* schema maps, dnt_to_dn, links, security_descriptors, pek_list or
\* kds_root_keys
C12_ReadOnlyAfterInit == [][pc = "ready" => CoreState' = CoreState]_vars

\* C12 witness: on an object with a class, an attribute, a KDS root key,
\* links and descriptors, a dump serialized a record and a class was looked
\* up by id
C12_Witness ==
    /\ pc = "ready"
    /\ Len(dumped) > 0
    /\ Len(dumped[1].did.serialized) > 0
    /\ Len(called) > 0
    /\ called[1].method = "extract_object_id_name"
    /\ Len(called[1].result) > 0
    /\ DOMAIN ntds.attribute_schema.resolve # {}
    /\ DOMAIN ntds.security_descriptors # {}
    /\ DOMAIN ntds.links.to # {}
    /\ Len(ntds.kds_root_keys) > 0

\* ------------------------------------------------------------------------
\* Claims about the PEK blob during the scan (checked under SpecPekRows)
\* ------------------------------------------------------------------------

\* the record is a DOMAIN_DNS or CONFIGURATION row that carries a pek_list
PekHit(record) ==
    /\ Len(record) > 0
    /\ Get(record[1], NAME_TO_INTERNAL.pek_list).t # "none"
    /\ \/ InList(OCLID_DOMAIN_DNS, get_object_class(record[1]))
       \/ InList(OCLID_CONFIGURATION, get_object_class(record[1]))

\* C13: once a DOMAIN_DNS or CONFIGURATION row with a pek_list has set
\* raw_enc_pek_list, the scan of any later such row leaves raw_enc_pek_list
\* and is_adam as they are
C13_FirstPekHitWins ==
    [][(pc = "datatable" /\ ntds.raw_enc_pek_list.t # "none" /\ PekHit(db.datatable[cursor]))
          => (ntds.raw_enc_pek_list' = ntds.raw_enc_pek_list /\ ntds.is_adam' = ntds.is_adam)]_vars

\* ------------------------------------------------------------------------
\* Claims about bad rows (checked under SpecNamed)
\* ------------------------------------------------------------------------

\* C14: no exception leaves construction, and once the datatable loop is
\* over it has gone through every row of the datatable, whatever rows are
\* null or have null fields
C14_NoAbortOnBadRow ==
    /\ raised = ""
    /\ pc # "raised"
    /\ pc \in {"dns", "pek", "ready"} => cursor = Len(db.datatable) + 1

\* ------------------------------------------------------------------------
\* Claims about the dispatch of attribute rows (checked under SpecAttribute)
\* ------------------------------------------------------------------------

\* the attribute of the record is mapped in a' to the column of number id,
\* and unresolved is as it was in a
MappedToColumn(a, b, record, id) ==
    LET column == PyStr(ntds.datatable_columns_mapping[id])
        common_name == Get(record, NAME_TO_INTERNAL.attribute_name_common_name)
        ldap_name == Get(record, NAME_TO_INTERNAL.attribute_name_ldap)
    IN  /\ column \in DOMAIN b.resolve /\ b.resolve[column] = <<common_name, ldap_name>>
        /\ ldap_name \in DOMAIN b.ldap /\ b.ldap[ldap_name] = column
        /\ common_name \in DOMAIN b.common_name /\ b.common_name[common_name] = column
        /\ b.unresolved = a.unresolved

\* the attribute of the record is under unresolved in b by its LDAP name, and
\* resolve, ldap and common_name are as they were in a
LeftUnresolved(a, b, record) ==
    /\ Get(record, NAME_TO_INTERNAL.attribute_name_ldap) \in DOMAIN b.unresolved
    /\ b.resolve = a.resolve
    /\ b.ldap = a.ldap
    /\ b.common_name = a.common_name

\* C15: the scan of an ATTRIBUTE_SCHEMA row maps the attribute to the column
\* of attribute_id if that is a column, else to the column of ms_ds_int_id
\* if that is a column, else records it under unresolved and adds nothing to
\* resolve, ldap and common_name; a row that is a CLASS_SCHEMA row too
\* leaves the attribute schema as it is
C15_AttributeDispatch ==
    [][(pc = "datatable" /\ Len(db.datatable[cursor]) > 0
            /\ InList(OCLID_ATTRIBUTE_SCHEMA, get_object_class(db.datatable[cursor][1])))
       => LET record == db.datatable[cursor][1]
              attr_id == Get(record, NAME_TO_INTERNAL.attribute_id)
              msds_id == Get(record, NAME_TO_INTERNAL.ms_ds_int_id)
              a == ntds.attribute_schema
              b == ntds'.attribute_schema
          IN  IF InList(OCLID_CLASS_SCHEMA, get_object_class(record)) THEN b = a
              ELSE IF attr_id \in DOMAIN ntds.datatable_columns_mapping THEN MappedToColumn(a, b, record, attr_id)
              ELSE IF msds_id \in DOMAIN ntds.datatable_columns_mapping THEN MappedToColumn(a, b, record, msds_id)
              ELSE LeftUnresolved(a, b, record)]_vars

\* C15 witness: with attribute_id and ms_ds_int_id both columns the attribute
\* went to the column of attribute_id, another attribute was left
\* unresolved, and a row that is a class too went to the class schema only
C15_Witness ==
    /\ pc = "ready"
    /\ PyInt(1234) \in DOMAIN ntds.datatable_columns_mapping
    /\ PyStr(NAME_TO_INTERNAL.attribute_name_common_name) \in DOMAIN ntds.attribute_schema.resolve
    /\ ntds.attribute_schema.resolve[PyStr(NAME_TO_INTERNAL.attribute_name_common_name)] = <<PyStr(<<"N">>), PyStr(<<"n">>)>>
    /\ PyStr(<<"x">>) \in DOMAIN ntds.attribute_schema.unresolved
    /\ PyStr(<<"8">>) \in DOMAIN ntds.object_class_schema.resolve

\* ------------------------------------------------------------------------
\* Claims about the entries of dnt_to_dn (checked under SpecNamed)
\* ------------------------------------------------------------------------

\* C16: once the names are built, every record with a non-null rdn and a
\* non-null PDNT_col, 0 included, has an entry under str(DNT_col), and the
\* entry of a record whose parent has none is its RDN components alone
C16_EveryNamedRecordHasEntry ==
    pc \in {"pek", "ready"} =>
        \A i \in 1..Len(db.datatable) :
            LET record == db.datatable[i][1]
                dns == ntds.distinguished_names_tag_to_distinguished_names
                child == PyStr(Str(Get(record, COL_DNT)))
                parent == PyStr(Str(Get(record, COL_PDNT)))
            IN  (Get(record, NAME_TO_INTERNAL.rdn).t # "none" /\ Get(record, COL_PDNT).t # "none")
                    => /\ child \in DOMAIN dns
                       /\ parent \notin DOMAIN dns => dns[child].parent = None

====
